---- MODULE Spec2Model ----
(***************************************************************************)
(* The tRPC procedure chains of src/server/api/trpc.ts:                    *)
(*   publicProcedure, privateProcedure, quizStartProcedure, quizProcedure. *)
(* One inbound call at a time is followed through its middleware steps to  *)
(* the terminal handler or to the TRPCError that aborts it.  Between calls *)
(* the client may change its cookies and the tables may be written by      *)
(* code outside this file.                                                 *)
(***************************************************************************)
EXTENDS Naturals, Sequences, FiniteSets

\* ---------------------------------------------------------------- bounds
\* the Entries table holds at most MaxEntries rows
MaxEntries == 1

\* ---------------------------------------------------------------- values
Tokens     == {"tok123"}
QuizIDs    == {"Q1", "Q2"}
QuizNames  == {"Algebra", "Geometry"}
EntryIDs   == {"E1", "E9"}
FirstNames == {"Ann"}
LastNames  == {"Lee"}
Classes    == {"3a"}
Scores     == {0, 1}

CookieNames == {"Authorization", "quizID", "entryID"}

CookieValues(name) ==
    IF name = "Authorization" THEN Tokens
    ELSE IF name = "quizID" THEN QuizIDs
    ELSE EntryIDs

\* rows of the two tables, shaped as CreateContextOptions.quiz / .entry
QuizRows == [id : QuizIDs, name : QuizNames]

EntryRows == [id : EntryIDs, name : FirstNames, quizID : QuizIDs,
              lastname : LastNames, class : Classes, score : Scores]

\* JavaScript's undefined: the value of a missing cookie, row or field
Undefined == [undefined |-> TRUE]

Procedures == {"publicProcedure", "privateProcedure",
               "quizStartProcedure", "quizProcedure"}

VARIABLES
    cookies,      \* the cookie store cookies() reads and writes
    Quizes,       \* table Quizes
    Entries,      \* table Entries
    status,       \* "idle" | "running" | "done"
    proc,         \* the procedure of the call in flight
    step,         \* index in the chain of the next middleware to run
    ctx,          \* the call's context: [quiz, entry]
    result,       \* what the caller receives
    trace,        \* the external operations the call has performed, in order
    reqCookies,   \* the cookies as the call arrived with them
    prev,         \* the previous call, as it was answered
    credSet,      \* the client has set "Authorization" since the last answer
    storeChanged  \* a table has been written since the last answer

vars == <<cookies, Quizes, Entries, status, proc, step, ctx, result, trace,
          reqCookies, prev, credSet, storeChanged>>

\* ---------------------------------------------------------------- helpers
\* array[0]: the one element of a result set, undefined when it is empty
First(S) == IF S = {} THEN Undefined ELSE CHOOSE r \in S : TRUE

\* cookies().get(name)
CookieGet(jar, name) == First({c \in jar : c.name = name})

\* the deletion is lost
CookieDeleteNothing(jar, name) == jar

\* cookies().delete(name)
CookieDelete(jar, name) == {c \in jar : c.name # name}

\* the where clause is lost
SelectNoWhere(table, id) == table

\* db.select().from(table).where(eq(table.id, id))
Select(table, id) == {r \in table : r.id = id}

\* a table holds one row per id
UniqueIds(table) == \A a, b \in table : a.id = b.id => a = b

\* the cookie store holds one cookie per name
UniqueNames(jar) == \A a, b \in jar : a.name = b.name => a = b

TRPCError(code, message) == [code |-> code, message |-> message]
Success == [code |-> "OK", message |-> ""]
Pending == [code |-> "PENDING", message |-> ""]

\* an external operation of a call: what was called, on what, what it returned
Event(op, arg, ret) == [op |-> op, arg |-> arg, ret |-> ret]

\* !cookie: cookies().get() gives undefined for a cookie that is not there
Present(cookie) == cookie # Undefined

\* the check on the looked-up row is left out
FoundUnchecked(row) == TRUE

\* if(row): a row that was found is an object, hence truthy
Found(row) == row # Undefined

\* the errors the middleware throw
AuthorizationMissingAsIncorrect == TRPCError("UNAUTHORIZED", "Authorization incorrect")
AuthorizationMissing   == TRPCError("UNAUTHORIZED", "Authorization missing")
AuthorizationIncorrect == TRPCError("UNAUTHORIZED", "Authorization incorrect")
QuizMissing            == TRPCError("BAD_REQUEST", "Quiz missing")
QuizIncorrect          == TRPCError("BAD_REQUEST", "Quiz incorrect")
EntryMissingAsQuiz     == TRPCError("BAD_REQUEST", "Quiz missing")
EntryMissing           == TRPCError("BAD_REQUEST", "Entry missing")
EntryIncorrectOwnText  == TRPCError("BAD_REQUEST", "Entry incorrect")
EntryIncorrect         == TRPCError("BAD_REQUEST", "Quiz incorrect")

\* createTRPCContext: quiz and entry are left unset
createTRPCContext == [quiz |-> Undefined, entry |-> Undefined]

\* quizProcedure's two middleware in the other order
ChainEntryFirst(p) ==
    IF p = "privateProcedure" THEN <<"verifySession">>
    ELSE IF p = "quizStartProcedure" THEN <<"resolveQuiz">>
    ELSE IF p = "quizProcedure" THEN <<"resolveEntry", "resolveQuiz">>
    ELSE <<>>

\* the middleware a procedure declares with .use(), in order
Chain(p) ==
    IF p = "privateProcedure" THEN <<"verifySession">>
    ELSE IF p = "quizStartProcedure" THEN <<"resolveQuiz">>
    ELSE IF p = "quizProcedure" THEN <<"resolveQuiz", "resolveEntry">>
    ELSE <<>>

\* what is remembered of an answered call: its procedure, its result, the
\* "quizID" cookie it arrived with and the Quiz its context held
Answered(p, r, jar, c) ==
    [proc |-> p, result |-> r, quizID |-> CookieGet(jar, "quizID"), quiz |-> c.quiz]

NoCall == Answered("none", Pending, {}, createTRPCContext)

\* ---------------------------------------------------------------- Init
Jars == {jar \in SUBSET [name : CookieNames, value : Tokens \cup QuizIDs \cup EntryIDs] :
            /\ UniqueNames(jar)
            /\ \A c \in jar : c.value \in CookieValues(c.name)}

Init ==
    /\ cookies = {}
    /\ Quizes = {}
    /\ Entries = {}
    /\ status = "idle"
    /\ proc = "none"
    /\ step = 1
    /\ ctx = createTRPCContext
    /\ result = Pending
    /\ trace = <<>>
    /\ reqCookies = {}
    /\ prev = NoCall
    /\ credSet = FALSE
    /\ storeChanged = FALSE

\* ---------------------------------------------------------------- the call
callVars == <<status, proc, step, ctx, result, trace, reqCookies>>

\* an inbound call selects a procedure; its context is built
StartCall(p) ==
    /\ status = "idle"
    /\ status' = "running"
    /\ proc' = p
    /\ step' = 1
    /\ ctx' = createTRPCContext
    /\ result' = Pending
    /\ trace' = <<>>
    /\ reqCookies' = cookies
    /\ UNCHANGED <<cookies, Quizes, Entries, prev, credSet, storeChanged>>

AtStep(name) ==
    /\ status = "running"
    /\ step <= Len(Chain(proc))
    /\ Chain(proc)[step] = name

\* throw new TRPCError(...): the chain is aborted, the caller gets the error
Throw(err, tr) ==
    /\ status' = "done"
    /\ result' = err
    /\ trace' = tr
    /\ UNCHANGED <<proc, step, ctx, reqCookies>>

\* return opts.next(): the rest of the chain runs with the context c
Continue(c, tr) ==
    /\ step' = step + 1
    /\ ctx' = c
    /\ trace' = tr
    /\ UNCHANGED <<status, proc, result, reqCookies>>

\* the cookie is deleted before the verifier has answered
VerifySessionDeletesFirst ==
    /\ AtStep("verifySession")
    /\ LET cookie == CookieGet(cookies, "Authorization")
           t0 == Append(trace, Event("step", "verifySession", "-"))
       IN IF ~Present(cookie)
          THEN /\ Throw(AuthorizationMissing, t0)
               /\ UNCHANGED cookies
          ELSE \E ok \in BOOLEAN :
                 LET t1 == Append(t0, Event("VerifyJWT", cookie.value,
                                            IF ok THEN "true" ELSE "false"))
                 IN /\ cookies' = CookieDelete(cookies, "Authorization")
                    /\ IF ok
                       THEN Continue(ctx, t1)
                       ELSE Throw(AuthorizationIncorrect,
                                  Append(t1, Event("cookies.delete", "Authorization", "-")))
    /\ UNCHANGED <<Quizes, Entries, prev, credSet, storeChanged>>

\* privateProcedure's middleware
VerifySession ==
    /\ AtStep("verifySession")
    /\ LET cookie == CookieGet(cookies, "Authorization")
           t0 == Append(trace, Event("step", "verifySession", "-"))
       IN IF ~Present(cookie)
          THEN /\ Throw(AuthorizationMissing, t0)
               /\ UNCHANGED cookies
          ELSE \E ok \in BOOLEAN :
                 LET t1 == Append(t0, Event("VerifyJWT", cookie.value,
                                            IF ok THEN "true" ELSE "false"))
                 IN IF ok
                    THEN /\ Continue(ctx, t1)
                         /\ UNCHANGED cookies
                    ELSE /\ cookies' = CookieDelete(cookies, "Authorization")
                         /\ Throw(AuthorizationIncorrect,
                                  Append(t1, Event("cookies.delete", "Authorization", "-")))
    /\ UNCHANGED <<Quizes, Entries, prev, credSet, storeChanged>>

\* the Quiz that was resolved is taken out of the table
ResolveQuizConsumes ==
    /\ AtStep("resolveQuiz")
    /\ LET cookie == CookieGet(cookies, "quizID")
           t0 == Append(trace, Event("step", "resolveQuiz", "-"))
       IN IF ~Present(cookie)
          THEN Throw(QuizMissing, t0) /\ UNCHANGED Quizes
          ELSE LET quiz == First(Select(Quizes, cookie.value))
                   t1 == Append(t0, Event("select.Quizes", cookie.value, "-"))
               IN IF Found(quiz)
                  THEN Continue([ctx EXCEPT !.quiz = quiz], t1) /\ Quizes' = Quizes \ {quiz}
                  ELSE Throw(QuizIncorrect, t1) /\ UNCHANGED Quizes
    /\ UNCHANGED <<cookies, Entries, prev, credSet, storeChanged>>

\* quizStartProcedure's middleware
ResolveQuiz ==
    /\ AtStep("resolveQuiz")
    /\ LET cookie == CookieGet(cookies, "quizID")
           t0 == Append(trace, Event("step", "resolveQuiz", "-"))
       IN IF ~Present(cookie)
          THEN Throw(QuizMissing, t0)
          ELSE LET quiz == First(Select(Quizes, cookie.value))
                   t1 == Append(t0, Event("select.Quizes", cookie.value, "-"))
               IN IF Found(quiz)
                  THEN Continue([ctx EXCEPT !.quiz = quiz], t1)
                  ELSE Throw(QuizIncorrect, t1)
    /\ UNCHANGED <<cookies, Quizes, Entries, prev, credSet, storeChanged>>

\* the Entry is accepted only when it belongs to the Quiz of the context
EntryFoundInQuiz(entry, c) == Found(entry) /\ entry.quizID = c.quiz.id

\* if(entry): the row alone decides; the Quiz already in the context is not
\* consulted
EntryFound(entry, c) == Found(entry)

\* the middleware quizProcedure adds to quizStartProcedure
ResolveEntry ==
    /\ AtStep("resolveEntry")
    /\ LET cookie == CookieGet(cookies, "entryID")
           t0 == Append(trace, Event("step", "resolveEntry", "-"))
       IN IF ~Present(cookie)
          THEN Throw(EntryMissing, t0)
          ELSE LET entry == First(Select(Entries, cookie.value))
                   t1 == Append(t0, Event("select.Entries", cookie.value, "-"))
               IN IF EntryFound(entry, ctx)
                  THEN Continue([ctx EXCEPT !.entry = entry], t1)
                  ELSE Throw(EntryIncorrect, t1)
    /\ UNCHANGED <<cookies, Quizes, Entries, prev, credSet, storeChanged>>

\* the terminal handler: reached once every middleware has called next()
Handler ==
    /\ status = "running"
    /\ step = Len(Chain(proc)) + 1
    /\ status' = "done"
    /\ result' = Success
    /\ trace' = Append(trace, Event("handler", proc, "-"))
    /\ UNCHANGED <<proc, step, ctx, reqCookies>>
    /\ UNCHANGED <<cookies, Quizes, Entries, prev, credSet, storeChanged>>

\* the result or the error goes back to the caller; the context is destroyed
Respond ==
    /\ status = "done"
    /\ status' = "idle"
    /\ prev' = Answered(proc, result, reqCookies, ctx)
    /\ credSet' = FALSE
    /\ storeChanged' = FALSE
    /\ proc' = "none"
    /\ step' = 1
    /\ ctx' = createTRPCContext
    /\ result' = Pending
    /\ trace' = <<>>
    /\ reqCookies' = {}
    /\ UNCHANGED <<cookies, Quizes, Entries>>

\* ---------------------------------------------------------------- outside
\* the client sets a cookie before its next call
ClientSetCookie(name, value) ==
    /\ status = "idle"
    /\ cookies' = CookieDelete(cookies, name) \cup {[name |-> name, value |-> value]}
    /\ cookies' # cookies
    /\ credSet' = (credSet \/ name = "Authorization")
    /\ UNCHANGED <<Quizes, Entries, prev, storeChanged>>
    /\ UNCHANGED callVars

\* the client drops a cookie before its next call
ClientDropCookie(name) ==
    /\ status = "idle"
    /\ CookieGet(cookies, name) # Undefined
    /\ cookies' = CookieDelete(cookies, name)
    /\ UNCHANGED <<Quizes, Entries, prev, credSet, storeChanged>>
    /\ UNCHANGED callVars

\* a row of Quizes is inserted, replaced or deleted out of band
WriteQuizes(id, rows) ==
    /\ status = "idle"
    /\ Quizes' = {r \in Quizes : r.id # id} \cup rows
    /\ Quizes' # Quizes
    /\ storeChanged' = TRUE
    /\ UNCHANGED <<cookies, Entries, prev, credSet>>
    /\ UNCHANGED callVars

\* a row of Entries is inserted, replaced or deleted out of band
WriteEntries(id, rows) ==
    /\ status = "idle"
    /\ Entries' = {r \in Entries : r.id # id} \cup rows
    /\ Entries' # Entries
    /\ Cardinality(Entries') <= MaxEntries
    /\ storeChanged' = TRUE
    /\ UNCHANGED <<cookies, Quizes, prev, credSet>>
    /\ UNCHANGED callVars

RowsFor(Rows, id) == {{}} \cup {{r} : r \in {x \in Rows : x.id = id}}

Next ==
    \/ \E p \in Procedures : StartCall(p)
    \/ VerifySession
    \/ ResolveQuiz
    \/ ResolveEntry
    \/ Handler
    \/ Respond
    \/ \E n \in CookieNames : \E v \in CookieValues(n) : ClientSetCookie(n, v)
    \/ \E n \in CookieNames : ClientDropCookie(n)
    \/ \E id \in QuizIDs : \E rows \in RowsFor(QuizRows, id) : WriteQuizes(id, rows)
    \/ \E id \in EntryIDs : \E rows \in RowsFor(EntryRows, id) : WriteEntries(id, rows)

Spec == Init /\ [][Next]_vars

TypeOK ==
    /\ cookies \in Jars
    /\ UniqueIds(Quizes) /\ Quizes \subseteq QuizRows
    /\ UniqueIds(Entries) /\ Entries \subseteq EntryRows
    /\ Cardinality(Entries) <= MaxEntries
    /\ status \in {"idle", "running", "done"}
    /\ proc \in Procedures \cup {"none"}
    /\ step \in 1..3

\* ---------------------------------------------------------------- properties
Ops(tr) == {tr[i].op : i \in 1..Len(tr)}

IsStep(e) == e.op = "step"

\* the middleware the call has entered so far, in the order it entered them
StepsRun == SelectSeq(trace, IsStep)

HandlerRan == "handler" \in Ops(trace)

InCall(p) == status # "idle" /\ proc = p

Done(p) == status = "done" /\ proc = p

\* the cookie the call arrived with
Arrived(name) == {c \in reqCookies : c.name = name}

StoredQuiz(id) == {r \in Quizes : r.id = id}

StoredEntry(id) == {r \in Entries : r.id = id}

\* the "quizID" cookie of the call names a stored Quiz
QuizCookieMatches == \E c \in Arrived("quizID") : StoredQuiz(c.value) # {}

\* the "entryID" cookie of the call names a stored Entry
EntryCookieMatches == \E c \in Arrived("entryID") : StoredEntry(c.value) # {}

\* C1: a call through privateProcedure that arrives without the
\* "Authorization" cookie fails with UNAUTHORIZED / "Authorization missing";
\* VerifyJWT is not invoked, no cookie is changed, the handler never runs.
C1_AuthorizationMissing ==
    (InCall("privateProcedure") /\ Arrived("Authorization") = {}) =>
        /\ "VerifyJWT" \notin Ops(trace)
        /\ cookies = reqCookies
        /\ ~HandlerRan
        /\ step = 1
        /\ status = "done" =>
              result = [code |-> "UNAUTHORIZED", message |-> "Authorization missing"]

C1_Witness ==
    /\ Done("privateProcedure")
    /\ Arrived("Authorization") = {}
    /\ Arrived("quizID") # {}
    /\ result.message = "Authorization missing"

\* the verifier was asked about the credential and answered no
Rejected == \E i \in 1..Len(trace) : trace[i].op = "VerifyJWT" /\ trace[i].ret = "false"

\* the verifier was asked about the credential and answered yes
Accepted == \E i \in 1..Len(trace) : trace[i].op = "VerifyJWT" /\ trace[i].ret = "true"

\* C2: a call through privateProcedure whose "Authorization" cookie the
\* verifier rejects fails with UNAUTHORIZED / "Authorization incorrect" and
\* the cookie is deleted; the next call through privateProcedure, no new
\* credential having been set, fails with "Authorization missing".
C2_AuthorizationIncorrect ==
    /\ (InCall("privateProcedure") /\ Arrived("Authorization") # {} /\ Rejected) =>
          /\ status = "done"
          /\ result = [code |-> "UNAUTHORIZED", message |-> "Authorization incorrect"]
          /\ \A c \in cookies : c.name # "Authorization"
          /\ ~HandlerRan
    /\ (Done("privateProcedure") /\ prev.proc = "privateProcedure"
          /\ prev.result.message = "Authorization incorrect" /\ ~credSet) =>
          result = [code |-> "UNAUTHORIZED", message |-> "Authorization missing"]

C2_Witness ==
    /\ Done("privateProcedure")
    /\ prev.proc = "privateProcedure"
    /\ prev.result.message = "Authorization incorrect"
    /\ ~credSet
    /\ result.message = "Authorization missing"

\* C3: a call through quizProcedure whose "quizID" cookie is the id of a
\* stored Quiz and whose "entryID" cookie is the id of a stored Entry runs the
\* handler, with context.quiz the stored Quiz and context.entry the stored
\* Entry, field for field.
C3_QuizAndEntryResolved ==
    (Done("quizProcedure") /\ QuizCookieMatches /\ EntryCookieMatches) =>
        /\ HandlerRan
        /\ result.code = "OK"
        /\ \A c \in Arrived("quizID") : \A q \in StoredQuiz(c.value) :
              /\ DOMAIN ctx.quiz = {"id", "name"}
              /\ ctx.quiz.id = q.id /\ ctx.quiz.name = q.name
        /\ \A c \in Arrived("entryID") : \A e \in StoredEntry(c.value) :
              /\ DOMAIN ctx.entry = {"id", "name", "quizID", "lastname", "class", "score"}
              /\ ctx.entry.id = e.id /\ ctx.entry.name = e.name
              /\ ctx.entry.quizID = e.quizID /\ ctx.entry.lastname = e.lastname
              /\ ctx.entry.class = e.class /\ ctx.entry.score = e.score

C3_Witness ==
    /\ Done("quizProcedure")
    /\ QuizCookieMatches /\ EntryCookieMatches
    /\ Cardinality(Quizes) = 2
    /\ ctx.quiz = [id |-> "Q1", name |-> "Algebra"]
    /\ ctx.entry \in Entries
    /\ HandlerRan

\* C4: a call through quizStartProcedure fails with BAD_REQUEST / "Quiz
\* missing" when the "quizID" cookie is absent and with BAD_REQUEST / "Quiz
\* incorrect" when it is the id of no stored Quiz; either way context.quiz
\* stays unset and the handler never runs.
C4_QuizStartFails ==
    (InCall("quizStartProcedure") /\ ~QuizCookieMatches) =>
        /\ ctx.quiz = Undefined
        /\ ~HandlerRan
        /\ step = 1
        /\ (status = "done" /\ Arrived("quizID") = {}) =>
              result = [code |-> "BAD_REQUEST", message |-> "Quiz missing"]
        /\ (status = "done" /\ Arrived("quizID") # {}) =>
              result = [code |-> "BAD_REQUEST", message |-> "Quiz incorrect"]

\* both failures, one call after the other
C4_Witness ==
    /\ Done("quizStartProcedure")
    /\ Arrived("quizID") # {} /\ ~QuizCookieMatches
    /\ Quizes # {}
    /\ result.message = "Quiz incorrect"
    /\ prev.proc = "quizStartProcedure"
    /\ prev.quizID = Undefined
    /\ prev.result.message = "Quiz missing"

\* C5: a call through quizProcedure whose "quizID" cookie names a stored Quiz
\* and whose "entryID" cookie is absent fails with BAD_REQUEST / "Entry
\* missing"; the Entries table is not queried and the handler never runs.
C5_EntryMissing ==
    (InCall("quizProcedure") /\ QuizCookieMatches /\ Arrived("entryID") = {}) =>
        /\ "select.Entries" \notin Ops(trace)
        /\ ~HandlerRan
        /\ ctx.entry = Undefined
        /\ status = "done" =>
              result = [code |-> "BAD_REQUEST", message |-> "Entry missing"]

C5_Witness ==
    /\ Done("quizProcedure")
    /\ QuizCookieMatches
    /\ Arrived("entryID") = {}
    /\ Entries # {}
    /\ result.message = "Entry missing"

\* C6: a call through quizProcedure whose "quizID" cookie names a stored Quiz
\* and whose "entryID" cookie is the id of no stored Entry fails with
\* BAD_REQUEST and the message "Quiz incorrect"; the handler never runs.
C6_EntryNotFound ==
    (InCall("quizProcedure") /\ QuizCookieMatches
        /\ Arrived("entryID") # {} /\ ~EntryCookieMatches) =>
        /\ ~HandlerRan
        /\ ctx.entry = Undefined
        /\ status = "done" =>
              result = [code |-> "BAD_REQUEST", message |-> "Quiz incorrect"]

C6_Witness ==
    /\ Done("quizProcedure")
    /\ QuizCookieMatches
    /\ Arrived("entryID") = {[name |-> "entryID", value |-> "E9"]}
    /\ StoredEntry("E9") = {}
    /\ "select.Entries" \in Ops(trace)
    /\ result.message = "Quiz incorrect"

\* the middleware each procedure declares, as the table of procedures gives them
Declared(p) ==
    IF p = "privateProcedure" THEN <<"verifySession">>
    ELSE IF p = "quizStartProcedure" THEN <<"resolveQuiz">>
    ELSE IF p = "quizProcedure" THEN <<"resolveQuiz", "resolveEntry">>
    ELSE <<>>

\* the failures a middleware can end the call with
FailuresOf(name) ==
    IF name = "verifySession"
    THEN {[code |-> "UNAUTHORIZED", message |-> "Authorization missing"],
          [code |-> "UNAUTHORIZED", message |-> "Authorization incorrect"]}
    ELSE IF name = "resolveQuiz"
    THEN {[code |-> "BAD_REQUEST", message |-> "Quiz missing"],
          [code |-> "BAD_REQUEST", message |-> "Quiz incorrect"]}
    ELSE {[code |-> "BAD_REQUEST", message |-> "Entry missing"],
          [code |-> "BAD_REQUEST", message |-> "Quiz incorrect"]}

\* C7: the middleware of a procedure run in declared order; the first one
\* that fails ends the call with its own code and message, and neither a
\* later middleware nor the handler runs; the handler runs only after every
\* middleware has succeeded.  For quizProcedure, when the "quizID" cookie is
\* absent or unmatched the failure is resolve-quiz's whatever the "entryID"
\* cookie is, Entries is never queried and context.entry stays unset.
C7_ChainOrder ==
    status # "idle" =>
        /\ Len(StepsRun) <= Len(Declared(proc))
        /\ \A i \in 1..Len(StepsRun) : StepsRun[i].arg = Declared(proc)[i]
        /\ HandlerRan =>
              /\ Len(StepsRun) = Len(Declared(proc))
              /\ trace[Len(trace)].op = "handler"
              /\ status = "done" /\ result.code = "OK"
        /\ (status = "done" /\ ~HandlerRan) =>
              /\ Len(StepsRun) >= 1
              /\ result \in FailuresOf(StepsRun[Len(StepsRun)].arg)
        /\ status = "running" => result.code = "PENDING"
        /\ (proc = "quizProcedure" /\ ~QuizCookieMatches) =>
              /\ "select.Entries" \notin Ops(trace)
              /\ ctx.entry = Undefined
              /\ ctx.quiz = Undefined
              /\ ~HandlerRan
              /\ (status = "done" /\ Arrived("quizID") = {}) =>
                    result = [code |-> "BAD_REQUEST", message |-> "Quiz missing"]
              /\ (status = "done" /\ Arrived("quizID") # {}) =>
                    result = [code |-> "BAD_REQUEST", message |-> "Quiz incorrect"]

\* resolve-quiz fails although the "entryID" cookie names a stored Entry
C7_Witness ==
    /\ Done("quizProcedure")
    /\ Arrived("quizID") # {} /\ ~QuizCookieMatches
    /\ EntryCookieMatches
    /\ result.message = "Quiz incorrect"
    /\ Len(StepsRun) = 1

\* the second of two successful calls through quizStartProcedure that arrived
\* with the same "quizID" cookie, no table written in between
Repeated ==
    /\ Done("quizStartProcedure") /\ result.code = "OK"
    /\ prev.proc = "quizStartProcedure" /\ prev.result.code = "OK"
    /\ \A c \in Arrived("quizID") : prev.quizID = c
    /\ ~storeChanged

\* C8: no step of a call writes the Quizes or the Entries table, and the
\* second of two identical successful calls through quizStartProcedure, with
\* no out-of-band write in between, attaches the same Quiz as the first.
C8_QuizStartIdempotent ==
    [][ /\ status # "idle" => UNCHANGED <<Quizes, Entries>>
        /\ Repeated => ctx.quiz = prev.quiz ]_vars

C8_Witness ==
    /\ Repeated
    /\ Cardinality(Quizes) = 2
    /\ Entries # {}
    /\ ctx.quiz = prev.quiz
    /\ ctx.quiz \in Quizes

\* C9: the one effect of any call on the cookies is the deletion of
\* "Authorization" when the verifier rejects it.  A call through
\* privateProcedure that the verifier accepts reaches the handler with
\* context.quiz and context.entry as they were and "Authorization" still
\* there; calls through the other procedures leave all cookies as they came.
C9_CookieFrame ==
    status # "idle" =>
        /\ (proc = "privateProcedure" /\ Rejected) =>
              cookies = reqCookies \ Arrived("Authorization")
        /\ ~(proc = "privateProcedure" /\ Rejected) => cookies = reqCookies
        /\ (proc = "privateProcedure" /\ Accepted) =>
              /\ ctx.quiz = Undefined /\ ctx.entry = Undefined
              /\ Arrived("Authorization") # {}
              /\ Arrived("Authorization") \subseteq cookies
              /\ step = 2
              /\ status = "done" => (HandlerRan /\ result.code = "OK")

C9_Witness ==
    /\ Done("privateProcedure")
    /\ Accepted
    /\ HandlerRan
    /\ Arrived("quizID") # {} /\ Arrived("entryID") # {}
    /\ cookies = reqCookies

\* the call's cookies name a stored Quiz and a stored Entry of another Quiz
Mismatched ==
    \E c \in Arrived("quizID") : \E d \in Arrived("entryID") :
        \E q \in StoredQuiz(c.value) : \E e \in StoredEntry(d.value) :
            e.quizID # q.id

\* C10: quizProcedure does not check that the Entry belongs to the Quiz: a
\* call whose cookies name a stored Quiz Q and a stored Entry E with
\* E.quizID # Q.id succeeds, and the handler runs with context.quiz = Q and
\* context.entry = E.
C10_EntryOfOtherQuizAccepted ==
    (Done("quizProcedure") /\ Mismatched) =>
        /\ HandlerRan
        /\ result.code = "OK"
        /\ ctx.quiz \in Quizes
        /\ ctx.entry \in Entries
        /\ ctx.entry.quizID # ctx.quiz.id
        /\ \A c \in Arrived("quizID") : ctx.quiz.id = c.value
        /\ \A d \in Arrived("entryID") : ctx.entry.id = d.value

\* the handler runs with an Entry whose quizID is the id of no stored Quiz
C10_Witness ==
    /\ Done("quizProcedure")
    /\ Mismatched
    /\ HandlerRan
    /\ ctx.entry.quizID # ctx.quiz.id
    /\ StoredQuiz(ctx.entry.quizID) = {}
====
